---------------------------- MODULE Spec2Model ----------------------------
(***************************************************************************)
(* A model of amortization_shared (src/streamlit_app.py, lines 24-97): the *)
(* shared-mortgage amortization loop and its yearly roll-up.               *)
(*                                                                         *)
(* Numbers.  The program computes in binary floating point.  The model     *)
(* computes in exact rationals [n, d] (d > 0, lowest terms), so every sum, *)
(* product, quotient and comparison is the real-number one; what it says   *)
(* about the code is therefore "up to floating-point error".  TLC's        *)
(* integers are 32 bits wide, which is why the inputs below use monthly    *)
(* rates of 1 and 1/2 (annual rates 12 and 6): balances then stay small    *)
(* fractions while a loan still takes 13 periods, i.e. more than one year, *)
(* to pay off.                                                             *)
(***************************************************************************)
EXTENDS Integers, Sequences, FiniteSets, TLC

VARIABLES
    pc,               \* "start", "loop", "returned", "raised"
    error,            \* the exception raised, "none" before
    loan_amount, annual_rate, term_years, monthly_contrib, downpayments, rounding,
    balance, cum_equity, pmt_no, rows,
    interest_due, interest_parts, principal_parts,
    untrimmed_paid,   \* principal_paid as first assigned, before the trim
    principal_paid,
    schedule, yearly

inputs == <<loan_amount, annual_rate, term_years, monthly_contrib, downpayments, rounding>>
locals == <<balance, cum_equity, pmt_no, rows>>
period == <<interest_due, interest_parts, principal_parts, untrimmed_paid, principal_paid>>
outputs == <<schedule, yearly>>
vars == <<pc, error, inputs, locals, period, outputs>>

---------------------------------------------------------------------------
(* Bounds of the model *)

MaxBorrowers == 2
MaxPeriods == 14
BigLoan == 4097
BigContrib == 4097

(* Program constants *)

MonthsPerYear == 12

---------------------------------------------------------------------------
(* Exact rational arithmetic standing for the float operators *)

Abs(x) == IF x < 0 THEN -x ELSE x

RECURSIVE GCD(_, _)
GCD(a, b) == IF b = 0 THEN a ELSE GCD(b, a % b)

Norm(n, d) ==
    LET g == GCD(Abs(n), d)
    IN  [n |-> n \div g, d |-> d \div g]

R(k) == [n |-> k, d |-> 1]

Zero == R(0)

RatAdd(a, b) ==
    LET g == GCD(a.d, b.d)
        l == (a.d \div g) * b.d
    IN  Norm(a.n * (l \div a.d) + b.n * (l \div b.d), l)

RatNeg(a) == [n |-> -a.n, d |-> a.d]

RatSub(a, b) == RatAdd(a, RatNeg(b))

RatMul(a, b) ==
    LET g1 == GCD(Abs(a.n), b.d)
        g2 == GCD(Abs(b.n), a.d)
    IN  Norm((a.n \div g1) * (b.n \div g2), (a.d \div g2) * (b.d \div g1))

\* b # 0; Python's float division raises ZeroDivisionError otherwise
RatDiv(a, b) ==
    RatMul(a, IF b.n > 0 THEN [n |-> b.d, d |-> b.n] ELSE [n |-> -b.d, d |-> -b.n])

\* a/b < c/d for b, d > 0, by integer parts and then the swapped reciprocals of
\* the fractional parts (no cross product, so no overflow)
RECURSIVE FracLess(_, _, _, _)
FracLess(a, b, c, d) ==
    LET qa == a \div b
        qc == c \div d
        ra == a % b
        rc == c % d
    IN  IF qa # qc THEN qa < qc
        ELSE IF rc = 0 THEN FALSE
        ELSE IF ra = 0 THEN TRUE
        ELSE FracLess(d, rc, b, ra)

RatLess(a, b) == FracLess(a.n, a.d, b.n, b.d)

RatLeq(a, b) == ~RatLess(b, a)

RECURSIVE Pow10(_)
Pow10(k) == IF k = 0 THEN 1 ELSE 10 * Pow10(k - 1)

RECURSIVE RatPow(_, _)
RatPow(a, k) == IF k = 0 THEN R(1) ELSE RatMul(RatPow(a, k - 1), a)

RECURSIVE SumTo(_, _)
SumTo(s, k) == IF k = 0 THEN Zero ELSE RatAdd(SumTo(s, k - 1), s[k])

\* Python's sum(): 0 + s[1] + s[2] + ...
Sum(s) == SumTo(s, Len(s))

\* round(x, digits): to the nearest multiple of 10^-digits, ties to the even one
Round(x, digits) ==
    LET scale == Pow10(digits)
        q == x.n \div x.d
        r == x.n % x.d
        f == q * scale + (r * scale) \div x.d
        rem == (r * scale) % x.d
        up == \/ 2 * rem > x.d
              \/ 2 * rem = x.d /\ f % 2 = 1
    IN  Norm(IF up THEN f + 1 ELSE f, scale)

\* a pandas float column divided by another: NaN for 0/0, inf for x/0
Num(x) == [kind |-> "num", v |-> x]
NaN == [kind |-> "nan", v |-> Zero]
Inf == [kind |-> "inf", v |-> Zero]

FloatDiv(a, b) ==
    IF b # Zero THEN Num(RatDiv(a, b))
    ELSE IF a = Zero THEN NaN ELSE Inf

---------------------------------------------------------------------------
(* The inputs a call is made with *)

LoanAmounts == {R(0), R(1), R(2), [n |-> 7, d |-> 4], R(BigLoan)}
AnnualRates == {R(-12), R(-6), R(0), R(6), R(12)}
TermYears == {0, 1}
Contribs == {R(0), R(1), R(2), R(BigContrib)}
Downs == {R(0), R(1)}
Roundings == {0, 1}

SeqsUpTo(S, k) == UNION {[1..m -> S] : m \in 1..k}

ErrLength == "ValueError: monthly_contrib and downpayments must have the same length"
ErrInsufficient == "ValueError: Monthly contributions are insufficient to cover interest."
ErrZeroDivision == "ZeroDivisionError"

Epsilon == [n |-> 1, d |-> 1000000]

---------------------------------------------------------------------------
(* The expressions of amortization_shared *)

LengthMismatch_Less(mc, dp) == Len(dp) < Len(mc)

LengthMismatch(mc, dp) == Len(dp) # Len(mc)

MRate(rate) == RatDiv(rate, R(MonthsPerYear))

\* the divisor of sched_payment; the quotient itself is never read
SchedPaymentDivisor(m_rate, years) ==
    RatSub(RatPow(RatAdd(R(1), m_rate), years * MonthsPerYear), R(1))

LoopCondition(bal) == RatLess(Epsilon, bal)

InterestDue(bal, m_rate) == RatMul(bal, m_rate)

Insufficient_Never(contrib_sum, due) == FALSE

Insufficient(contrib_sum, due) == RatLess(contrib_sum, due)

InterestParts_OfBalance(mc, contrib_sum, due, bal) ==
    [i \in 1..Len(mc) |-> RatMul(RatDiv(mc[i], contrib_sum), bal)]

InterestParts(mc, contrib_sum, due, bal) ==
    [i \in 1..Len(mc) |-> RatMul(RatDiv(mc[i], contrib_sum), due)]

PrincipalParts(mc, parts) ==
    [i \in 1..Len(mc) |-> RatSub(mc[i], parts[i])]

NeedsTrim_Never(paid, bal) == FALSE

NeedsTrim(paid, bal) == RatLess(bal, paid)

TrimParts_Unscaled(parts, paid, bal) == parts

TrimParts(parts, paid, bal) ==
    LET scale == RatDiv(bal, paid)
    IN  [i \in 1..Len(parts) |-> RatMul(parts[i], scale)]

NewBalance_Added(bal, paid) == RatAdd(bal, paid)

NewBalance(bal, paid) == RatSub(bal, paid)

AddParts(equity, parts) ==
    [i \in 1..Len(equity) |-> RatAdd(equity[i], parts[i])]

Row(no, paid, due, bal, equity, digits) ==
    [pmt |-> no,
     principal |-> Round(paid, digits),
     interest |-> Round(due, digits),
     balance |-> Round(bal, digits),
     equity |-> [i \in 1..Len(equity) |-> Round(equity[i], digits)]]

---------------------------------------------------------------------------
(* The yearly roll-up *)

YearOf(no) == (no - 1) \div MonthsPerYear + 1

Years(sched) == {YearOf(sched[k].pmt) : k \in 1..Len(sched)}

\* groupby("Year"): the keys in ascending order
NthYear(sched, j) ==
    CHOOSE y \in Years(sched) : Cardinality({z \in Years(sched) : z < y}) = j - 1

GroupPick_First(sched, y) ==
    LET ks == {k \in 1..Len(sched) : YearOf(sched[k].pmt) = y}
    IN  sched[CHOOSE k \in ks : \A l \in ks : k <= l]

\* agg "last": the last row of the group
GroupPick(sched, y) ==
    LET ks == {k \in 1..Len(sched) : YearOf(sched[k].pmt) = y}
    IN  sched[CHOOSE k \in ks : \A l \in ks : l <= k]

YearRow(sched, y) ==
    LET last == GroupPick(sched, y)
        total == Sum(last.equity)
    IN  [year |-> y,
         equity |-> last.equity,
         balance |-> last.balance,
         total |-> total,
         share |-> [i \in 1..Len(last.equity) |-> FloatDiv(last.equity[i], total)]]

Yearly(sched) ==
    [j \in 1..Cardinality(Years(sched)) |-> YearRow(sched, NthYear(sched, j))]

---------------------------------------------------------------------------
(* The call as a state machine *)

Init ==
    /\ pc = "start"
    /\ error = "none"
    /\ loan_amount \in LoanAmounts
    /\ annual_rate \in AnnualRates
    /\ term_years \in TermYears
    /\ monthly_contrib \in SeqsUpTo(Contribs, MaxBorrowers)
    /\ downpayments \in SeqsUpTo(Downs, MaxBorrowers)
    /\ rounding \in Roundings
    /\ balance = Zero
    /\ cum_equity = <<>>
    /\ pmt_no = 0
    /\ rows = <<>>
    /\ interest_due = Zero
    /\ interest_parts = <<>>
    /\ principal_parts = <<>>
    /\ untrimmed_paid = Zero
    /\ principal_paid = Zero
    /\ schedule = <<>>
    /\ yearly = <<>>

Raise(e) ==
    /\ pc' = "raised"
    /\ error' = e
    /\ UNCHANGED <<inputs, locals, period, outputs>>

\* lines 36-38
RaiseLength ==
    /\ pc = "start"
    /\ LengthMismatch(monthly_contrib, downpayments)
    /\ Raise(ErrLength)

\* lines 40-45: the division of sched_payment by zero
RaiseSchedPayment ==
    /\ pc = "start"
    /\ ~LengthMismatch(monthly_contrib, downpayments)
    /\ SchedPaymentDivisor(MRate(annual_rate), term_years) = Zero
    /\ Raise(ErrZeroDivision)

\* lines 36-50
Enter ==
    /\ pc = "start"
    /\ ~LengthMismatch(monthly_contrib, downpayments)
    /\ SchedPaymentDivisor(MRate(annual_rate), term_years) # Zero
    /\ pc' = "loop"
    /\ balance' = loan_amount
    /\ cum_equity' = downpayments
    /\ pmt_no' = 0
    /\ rows' = <<>>
    /\ UNCHANGED <<error, inputs, period, outputs>>

\* lines 52-58: the period's interest is not covered
RaiseInsufficient ==
    /\ pc = "loop"
    /\ LoopCondition(balance)
    /\ pmt_no < MaxPeriods
    /\ Insufficient(Sum(monthly_contrib), InterestDue(balance, MRate(annual_rate)))
    /\ pc' = "raised"
    /\ error' = ErrInsufficient
    /\ pmt_no' = pmt_no + 1
    /\ interest_due' = InterestDue(balance, MRate(annual_rate))
    /\ UNCHANGED <<inputs, balance, cum_equity, rows, interest_parts,
                   principal_parts, untrimmed_paid, principal_paid, outputs>>

\* lines 52-60: c / contrib_sum with contrib_sum = 0
RaiseProration ==
    /\ pc = "loop"
    /\ LoopCondition(balance)
    /\ pmt_no < MaxPeriods
    /\ ~Insufficient(Sum(monthly_contrib), InterestDue(balance, MRate(annual_rate)))
    /\ Sum(monthly_contrib) = Zero
    /\ pc' = "raised"
    /\ error' = ErrZeroDivision
    /\ pmt_no' = pmt_no + 1
    /\ interest_due' = InterestDue(balance, MRate(annual_rate))
    /\ UNCHANGED <<inputs, balance, cum_equity, rows, interest_parts,
                   principal_parts, untrimmed_paid, principal_paid, outputs>>

\* lines 52-77: one period
Period ==
    /\ pc = "loop"
    /\ LoopCondition(balance)
    /\ pmt_no < MaxPeriods
    /\ LET contrib_sum == Sum(monthly_contrib)
           due == InterestDue(balance, MRate(annual_rate))
       IN  /\ ~Insufficient(contrib_sum, due)
           /\ contrib_sum # Zero
           /\ LET iparts == InterestParts(monthly_contrib, contrib_sum, due, balance)
                  pparts == PrincipalParts(monthly_contrib, iparts)
                  paid == Sum(pparts)
                  trim == NeedsTrim(paid, balance)
                  pparts2 == IF trim THEN TrimParts(pparts, paid, balance) ELSE pparts
                  paid2 == IF trim THEN balance ELSE paid
                  bal2 == NewBalance(balance, paid2)
                  equity2 == AddParts(cum_equity, pparts2)
              IN  /\ pmt_no' = pmt_no + 1
                  /\ interest_due' = due
                  /\ interest_parts' = iparts
                  /\ principal_parts' = pparts2
                  /\ untrimmed_paid' = paid
                  /\ principal_paid' = paid2
                  /\ balance' = bal2
                  /\ cum_equity' = equity2
                  /\ rows' = Append(rows, Row(pmt_no + 1, paid2, due, bal2, equity2, rounding))
    /\ UNCHANGED <<pc, error, inputs, outputs>>

\* lines 79-97
Return ==
    /\ pc = "loop"
    /\ ~LoopCondition(balance)
    /\ pc' = "returned"
    /\ schedule' = rows
    /\ yearly' = Yearly(rows)
    /\ UNCHANGED <<error, inputs, locals, period>>

Next ==
    \/ RaiseLength
    \/ RaiseSchedPayment
    \/ Enter
    \/ RaiseInsufficient
    \/ RaiseProration
    \/ Period
    \/ Return

Spec == Init /\ [][Next]_vars

---------------------------------------------------------------------------
(* What the claims speak of *)

SameLength == Len(monthly_contrib) = Len(downpayments)

Positive(x) == RatLess(Zero, x)

\* the spec's preconditions on the loan terms
ValidTerms == Positive(loan_amount) /\ Positive(annual_rate) /\ term_years >= 1

\* the spec's preconditions on a call
ValidCall ==
    /\ SameLength
    /\ ValidTerms
    /\ \A i \in 1..Len(monthly_contrib) : RatLeq(Zero, monthly_contrib[i])
    /\ \A i \in 1..Len(downpayments) : RatLeq(Zero, downpayments[i])

NoOutput == schedule = <<>> /\ yearly = <<>>

NothingComputed ==
    /\ pmt_no = 0
    /\ rows = <<>>
    /\ balance = Zero
    /\ cum_equity = <<>>
    /\ period = <<Zero, <<>>, <<>>, Zero, Zero>>

\* sum(monthlyContribution) < principal * annualRate / 12
UncoveredAtPeriodOne ==
    RatLess(Sum(monthly_contrib), RatMul(loan_amount, RatDiv(annual_rate, R(12))))

---------------------------------------------------------------------------
(* C1: a call whose two vectors differ in length raises the length error  *)
(* (the code's InvalidInput) before anything is computed: no period is    *)
(* processed, no row built, nothing returned, whatever the other          *)
(* arguments are.                                                          *)
C1_LengthMismatchRaisesFirst ==
    (~SameLength /\ pc # "start") =>
        /\ pc = "raised"
        /\ error = ErrLength
        /\ NothingComputed
        /\ NoOutput

\* a mismatched call has raised, with a rate (0) that would otherwise have
\* failed in the sched_payment division
C1_Witness ==
    /\ ~SameLength
    /\ pc = "raised"
    /\ annual_rate = Zero

---------------------------------------------------------------------------
(* C2: a call with equal-length vectors and a non-positive loan term      *)
(* (principal <= 0, annualRate <= 0, termYears < 1) raises InvalidInput    *)
(* before the main loop begins, instead of dividing by zero or returning.  *)
C2_NonPositiveTermsRaiseInvalidInput ==
    (SameLength /\ ~ValidTerms /\ pc # "start") =>
        /\ pc = "raised"
        /\ error = ErrLength
        /\ NothingComputed
        /\ NoOutput

---------------------------------------------------------------------------
---------------------------------------------------------------------------
(* C10: the interest-coverage error is raised in period 1 or never: when  *)
(* it is raised no row has been appended; under a positive rate the        *)
(* interest due never increases from one row to the next, and every        *)
(* period after a first one that passed the check passes it too.           *)
C10_InsufficientOnlyInPeriodOne ==
    /\ error = ErrInsufficient => pmt_no = 1 /\ rows = <<>>
    /\ Positive(annual_rate) =>
          /\ \A k \in 1..(Len(rows) - 1) :
                /\ RatLeq(rows[k + 1].interest, rows[k].interest)
                /\ RatLeq(rows[k + 1].balance, rows[k].balance)
          /\ (pc = "loop" /\ pmt_no >= 1) =>
                /\ RatLeq(balance, loan_amount)
                /\ RatLeq(RatMul(balance, RatDiv(annual_rate, R(12))), interest_due)
    /\ (pc = "loop" /\ pmt_no >= 1) =>
          RatLeq(RatMul(balance, RatDiv(annual_rate, R(12))), Sum(monthly_contrib))

\* three periods have passed the check, the interest due falling, and the
\* loop goes on
C10_Witness ==
    /\ pc = "loop"
    /\ pmt_no >= 3
    /\ Positive(annual_rate)
    /\ RatLess(rows[3].interest, rows[1].interest)
    /\ RatLess(Zero, balance)

---------------------------------------------------------------------------
BalancesFall(sched) ==
    /\ \A k \in 1..(Len(sched) - 1) : RatLeq(sched[k + 1].balance, sched[k].balance)
    /\ \A k \in 1..Len(sched) : RatLeq(Zero, sched[k].balance)
    /\ Len(sched) >= 1 => sched[Len(sched)].balance = Zero

TrimLandsOnZero ==
    (pc = "loop" /\ pc' = "loop" /\ pmt_no' = pmt_no + 1
        /\ RatLess(balance, untrimmed_paid')) =>
            /\ principal_paid' = balance
            /\ balance' = Zero
            /\ rows'[pmt_no'].balance = Zero

(* C5, as claimed: a returned Schedule's loanBalance never rises from row *)
(* to row, starts at most at the principal, is never negative and ends at  *)
(* 0; and a period whose untrimmed principalPaid exceeds the remaining     *)
(* balance pays exactly that balance, which lands on zero.                 *)
C5_MonotonePayoff_AsClaimed ==
    /\ []((ValidCall /\ pc = "returned") =>
            /\ BalancesFall(schedule)
            /\ Len(schedule) >= 1 => RatLeq(schedule[1].balance, loan_amount))
    /\ [][TrimLandsOnZero]_vars

(* C5, amended: the same, the first row's loanBalance being at most the   *)
(* principal rounded to roundingDigits (a row holds the rounded balance,   *)
(* which can exceed a principal that is not a multiple of the rounding     *)
(* unit).                                                                  *)
C5_MonotonePayoff ==
    /\ [](pc = "returned" =>
            /\ BalancesFall(schedule)
            /\ Len(schedule) >= 1 =>
                  RatLeq(schedule[1].balance, Round(loan_amount, rounding)))
    /\ [][TrimLandsOnZero]_vars

\* a schedule of several rows was returned whose last period was trimmed
C5_Witness ==
    /\ pc = "returned"
    /\ Len(schedule) >= 2
    /\ RatLess(principal_paid, untrimmed_paid)
    /\ RatLess(schedule[2].balance, schedule[1].balance)

---------------------------------------------------------------------------
RatAbs(x) == IF x.n < 0 THEN RatNeg(x) ELSE x

HalfUnits(k, digits) == Norm(k, 2 * Pow10(digits))

PrincipalUpTo(sched, k) == Sum([j \in 1..k |-> sched[j].principal])

(* C6: conservation.  After every period, trimmed or not, the borrowers'  *)
(* cumulative equity sums to the down payments plus the principal paid so  *)
(* far, i.e. to sum(downPayment) + principal - balance; in the rows, which *)
(* hold rounded values, the same within half a rounding unit per rounded   *)
(* term.                                                                    *)
C6_Conservation ==
    /\ pc \in {"loop", "returned"} =>
          Sum(cum_equity) =
              RatSub(RatAdd(Sum(downpayments), loan_amount), balance)
    /\ \A k \in 1..Len(rows) :
          LET n == Len(downpayments)
              got == Sum(rows[k].equity)
          IN  /\ RatLeq(RatAbs(RatSub(got, RatAdd(Sum(downpayments),
                                                  PrincipalUpTo(rows, k)))),
                        HalfUnits(n + k, rounding))
              /\ RatLeq(RatAbs(RatSub(got, RatSub(RatAdd(Sum(downpayments),
                                                         loan_amount),
                                                  rows[k].balance))),
                        HalfUnits(n + 1, rounding))

\* two borrowers, several periods, the last one trimmed
C6_Witness ==
    /\ pc = "returned"
    /\ Len(monthly_contrib) = 2
    /\ Len(schedule) >= 2
    /\ RatLess(principal_paid, untrimmed_paid)
    /\ Positive(monthly_contrib[1]) /\ Positive(monthly_contrib[2])

---------------------------------------------------------------------------
(* C9: in every period that passes the interest-coverage check the        *)
(* interest parts are proportional to the contributions and add up to the  *)
(* interest due, no part exceeds its borrower's contribution, so that no   *)
(* principal part is negative, and the untrimmed principalPaid is          *)
(* totalContribution - interestDue.                                        *)
C9_ProrationPartitions ==
    interest_parts # <<>> =>
        /\ Len(interest_parts) = Len(monthly_contrib)
        /\ Sum(interest_parts) = interest_due
        /\ untrimmed_paid = RatSub(Sum(monthly_contrib), interest_due)
        /\ \A i \in 1..Len(monthly_contrib) :
              /\ RatMul(interest_parts[i], Sum(monthly_contrib)) =
                     RatMul(monthly_contrib[i], interest_due)
              /\ RatLeq(interest_parts[i], monthly_contrib[i])
              /\ RatLeq(Zero, principal_parts[i])

\* a period with two unequal contributors and a fractional interest due
C9_Witness ==
    /\ Len(interest_parts) = 2
    /\ RatLess(Zero, interest_parts[1])
    /\ RatLess(interest_parts[1], interest_parts[2])
    /\ interest_due.d # 1

---------------------------------------------------------------------------
(* C4: for inputs within the preconditions whose contributions cover the  *)
(* interest in every period, the loop terminates.  The loop's next state   *)
(* is a function of balance alone (the inputs never change), so it         *)
(* terminates only if no period leaves the balance where it was: every     *)
(* period that passes the check and continues the loop lowers the balance. *)
C4_EveryPeriodLowersBalance ==
    [][(ValidCall /\ pc = "loop" /\ pc' = "loop" /\ pmt_no' = pmt_no + 1) =>
          RatLess(balance', balance)]_vars

\* The periods the model is bounded to are used up only by such a loop: by a
\* call whose contributions equal the first period's interest exactly.
CapOnlyWhenStalled ==
    (pc = "loop" /\ pmt_no = MaxPeriods /\ LoopCondition(balance)) =>
        /\ balance = loan_amount
        /\ Sum(monthly_contrib) = RatMul(loan_amount, RatDiv(annual_rate, R(12)))

\* With the first period's interest strictly covered, every period lowers it.
StrictCoverageLowersBalance ==
    [][(ValidCall /\ pc = "loop" /\ pc' = "loop" /\ pmt_no' = pmt_no + 1
          /\ RatLess(RatMul(loan_amount, RatDiv(annual_rate, R(12))),
                     Sum(monthly_contrib))) =>
          RatLess(balance', balance)]_vars

---------------------------------------------------------------------------
SharesNormal(row) ==
    /\ row.total # Zero
    /\ \A i \in 1..Len(row.share) :
          /\ row.share[i].kind = "num"
          /\ RatLeq(Zero, row.share[i].v)
          /\ RatLeq(row.share[i].v, R(1))
          /\ row.share[i].v = RatDiv(row.equity[i], row.total)
    /\ Sum([i \in 1..Len(row.share) |-> row.share[i].v]) = R(1)

(* C7: in every YearRow of a returned roll-up totalEquity is not zero, so *)
(* every share is a number; each share lies in [0,1] and the shares add    *)
(* up to 1, also when all down payments are 0 or a contribution is 0.      *)
C7_SharesNormalized ==
    (ValidCall /\ pc = "returned") => \A y \in 1..Len(yearly) : SharesNormal(yearly[y])

\* Where the rounded equities of a year do not all vanish, its shares are normal.
SharesNormalWhereTotalNonZero ==
    pc = "returned" =>
        \A y \in 1..Len(yearly) :
            /\ Len(yearly[y].share) = Len(monthly_contrib)
            /\ yearly[y].total = Sum(yearly[y].equity)
            /\ yearly[y].total # Zero => SharesNormal(yearly[y])

---------------------------------------------------------------------------
Min(a, b) == IF a <= b THEN a ELSE b

(* C8: a returned Schedule of L >= 1 rows, numbered 1..L, rolls up into   *)
(* ceil(L/12) YearRows for years 1..ceil(L/12) in ascending order, the row *)
(* of year y carrying the loanBalance and the cumulativeEquity of Schedule *)
(* row min(12*y, L).                                                       *)
C8_YearlyRollup ==
    pc = "returned" =>
        LET L == Len(schedule)
        IN  /\ \A k \in 1..L : schedule[k].pmt = k
            /\ Len(yearly) = (L + 11) \div 12
            /\ \A y \in 1..Len(yearly) :
                  /\ yearly[y].year = y
                  /\ yearly[y].balance = schedule[Min(12 * y, L)].balance
                  /\ yearly[y].equity = schedule[Min(12 * y, L)].equity

\* a schedule that ends in its second year, the two year rows differing
C8_Witness ==
    /\ pc = "returned"
    /\ Len(schedule) > 12
    /\ Len(yearly) = 2
    /\ yearly[1].balance # yearly[2].balance
    /\ yearly[1].equity # schedule[1].equity

=============================================================================
